---- MODULE Spec2Model ----
(***************************************************************************)
(* Model of facefusion_batch.py: the FaceFusionBatch driver and main().    *)
(* File names are sequences of one-character strings so that pathlib's     *)
(* stem / suffix split, str.lower() and the sort order are computed.       *)
(***************************************************************************)
EXTENDS Integers, Sequences, FiniteSets, TLC

\* ------------------------------------------------------------------ bounds
MaxEntries == 3     \* most entries the target directory holds
MaxPre == 1         \* most files the output directory holds before the run
MaxCmdEntries == 1  \* most entries of the target directory in SpecCmd

\* ------------------------------------------------------- characters, names
\* The characters used, in code point order: '.', 'A'..'Z', '_', 'a'..'z'.
Alphabet ==
  << ".",
     "A", "B", "C", "D", "E", "F", "G", "H", "I", "J", "K", "L", "M",
     "N", "O", "P", "Q", "R", "S", "T", "U", "V", "W", "X", "Y", "Z",
     "_",
     "a", "b", "c", "d", "e", "f", "g", "h", "i", "j", "k", "l", "m",
     "n", "o", "p", "q", "r", "s", "t", "u", "v", "w", "x", "y", "z" >>

Ord(c) == CHOOSE i \in 1..Len(Alphabet) : Alphabet[i] = c

\* str.lower() on one character, then on a string.
LowerChar(c) == IF Ord(c) \in 2..27 THEN Alphabet[Ord(c) + 27] ELSE c

Lower(s) == [i \in 1..Len(s) |-> LowerChar(s[i])]

\* str.rfind('.') as a 1-based index, 0 when there is no dot.
RFindDot(name) ==
  LET dots == {i \in 1..Len(name) : name[i] = "."}
  IN  IF dots = {} THEN 0 ELSE CHOOSE i \in dots : \A j \in dots : j <= i

\* pathlib's PurePath.suffix: the text from the last dot, unless that dot is
\* the first or the last character of the name.
Suffix(name) ==
  LET k == RFindDot(name)
  IN  IF 1 < k /\ k < Len(name) THEN SubSeq(name, k, Len(name)) ELSE << >>

\* pathlib's PurePath.stem.
Stem(name) ==
  LET k == RFindDot(name)
  IN  IF 1 < k /\ k < Len(name) THEN SubSeq(name, 1, k - 1) ELSE name

\* str < str: lexicographic by code point.
RECURSIVE StrLess(_, _)
StrLess(a, b) ==
  IF a = << >> THEN b # << >>
  ELSE IF b = << >> THEN FALSE
  ELSE IF Ord(Head(a)) # Ord(Head(b)) THEN Ord(Head(a)) < Ord(Head(b))
  ELSE StrLess(Tail(a), Tail(b))

\* The names a target directory entry may have.
Pool ==
  { << "a", ".", "j", "p", "g" >>,
    << "a", ".", "p", "n", "g" >>,
    << "B", ".", "P", "N", "G" >>,
    << "n", ".", "t", "x", "t" >>,
    << ".", "p", "n", "g" >>,
    << "a", ".", "b", ".", "j", "p", "e", "g" >> }

\* The source image's file name.
SourceName == << "s", ".", "j", "p", "g" >>

\* The four default installation candidates, in probe order.
Candidates == << "home", "cwd", "opt", "home_projects" >>

\* ------------------------------------------------------------ the program
VARIABLES
  srcExists,       \* file system: the source image exists
  targetKind,      \* file system: target_dir is "absent", a "file" or a "dir"
  dirEntries,      \* file system: name -> "file" | "dir", entries of target_dir
  installed,       \* file system: location -> <location>/facefusion.py exists
  outputFiles,     \* file system: names of the files in output_dir
  outputDirExists, \* file system: output_dir exists
  execution_provider, \* args.execution_provider
  face_swapper_model, \* args.face_swapper_model
  explicitPath,    \* args.facefusion_path was given
  verbose,         \* args.verbose
  facefusion_path, \* self.facefusion_path: "unset", "explicit" or a candidate
  pc,              \* "start", "constructed", "loop", "running", "exited"
  targets,         \* target_images: the result of the last enumeration
  enumCalls,       \* number of calls of _get_target_images so far
  idx,             \* process_batch: number of targets already handled
  successful,      \* process_batch: successful
  failed,          \* process_batch: failed
  launched,        \* the child processes spawned so far, as
                   \* [target, output, cwd, cmd]
  exits,           \* the child processes exited so far, as [returncode, wrote]
  stdout,          \* the per-job lines printed so far, as [kind, name]
  summaryPrinted,  \* the final summary was printed
  error,           \* the error main() reported, "" when none
  exitStatus,      \* the process exit status, -1 while running
  sigint           \* a user interrupt was delivered

vars == << srcExists, targetKind, dirEntries, installed, outputFiles,
           outputDirExists, execution_provider, face_swapper_model,
           explicitPath, verbose, facefusion_path, pc, targets, enumCalls,
           idx, successful, failed, launched, exits, stdout, summaryPrinted,
           error, exitStatus, sigint >>

fsVars == << srcExists, targetKind, dirEntries, installed, explicitPath, verbose,
            execution_provider, face_swapper_model >>

\* ------------------------------------------------------ Target Enumerator
image_extensions ==
  { << ".", "j", "p", "g" >>, << ".", "j", "p", "e", "g" >>,
    << ".", "p", "n", "g" >>, << ".", "b", "m", "p" >>,
    << ".", "t", "i", "f", "f" >>, << ".", "w", "e", "b", "p" >> }

\* Variant: the extension is compared without lower().
IsTargetImage_CaseSensitive(entries, name) ==
  entries[name] = "file" /\ Suffix(name) \in image_extensions

\* The filter of the iterdir() loop.
IsTargetImage(entries, name) ==
  entries[name] = "file" /\ Lower(Suffix(name)) \in image_extensions

\* Variant: the names of S in descending order.
RECURSIVE SortedSeq_Descending(_)
SortedSeq_Descending(S) ==
  IF S = {} THEN << >>
  ELSE LET m == CHOOSE x \in S : \A y \in S \ {x} : StrLess(y, x)
       IN  << m >> \o SortedSeq_Descending(S \ {m})

\* sorted(): the names of S in ascending order.
RECURSIVE SortedSeq(_)
SortedSeq(S) ==
  IF S = {} THEN << >>
  ELSE LET m == CHOOSE x \in S : \A y \in S \ {x} : StrLess(x, y)
       IN  << m >> \o SortedSeq(S \ {m})

_get_target_images(entries) ==
  SortedSeq({n \in DOMAIN entries : IsTargetImage(entries, n)})

\* ------------------------------------------------------------ Job Runner
\* Variant: the target's suffix is left out.
OutputFilename_NoSuffix(source, target) ==
  Stem(source) \o << "_", "t", "o", "_" >> \o Stem(target)

\* f"{source.stem}_to_{target.stem}{target.suffix}"
OutputFilename(source, target) ==
  Stem(source) \o << "_", "t", "o", "_" >> \o Stem(target) \o Suffix(target)

\* One argument of the child's command line: a literal text, or a file name
\* under a directory.
Lit(t) == [text |-> t, name |-> << >>]

File(dir, n) == [text |-> dir, name |-> n]

EntryPoint == << "f", "a", "c", "e", "f", "u", "s", "i", "o", "n", ".", "p", "y" >>

\* Variant: every GPU provider gets the device index.
_build_command_DeviceForGpu(ffpath, provider, model, target_image, output_path) ==
  << Lit("sys.executable"), File(ffpath, EntryPoint), Lit("headless-run"),
     Lit("--source"), File("source", SourceName),
     Lit("--target"), File("target_dir", target_image),
     Lit("--output"), File("output_dir", output_path),
     Lit("--processors"), Lit("face_swapper"),
     Lit("--face-swapper-model"), Lit(model),
     Lit("--execution-providers"), Lit(provider),
     Lit("--skip-download") >>
  \o (IF provider \in {"cuda", "rocm"}
      THEN << Lit("--execution-device-id"), Lit("0") >>
      ELSE << >>)

\* _build_command: the argument list handed to subprocess.run.
_build_command(ffpath, provider, model, target_image, output_path) ==
  << Lit("sys.executable"), File(ffpath, EntryPoint), Lit("headless-run"),
     Lit("--source"), File("source", SourceName),
     Lit("--target"), File("target_dir", target_image),
     Lit("--output"), File("output_dir", output_path),
     Lit("--processors"), Lit("face_swapper"),
     Lit("--face-swapper-model"), Lit(model),
     Lit("--execution-providers"), Lit(provider),
     Lit("--skip-download") >>
  \o (IF provider = "cuda"
      THEN << Lit("--execution-device-id"), Lit("0") >>
      ELSE << >>)

\* The classes caught by "except Exception": KeyboardInterrupt and SystemExit
\* derive from BaseException only.
IsException(e) ==
  e \in { "FileNotFoundError", "ValueError", "AttributeError",
          "NotADirectoryError", "OSError" }

\* Variant: a bare "except:" that catches every exception.
JobRunnerCatches_All(e) == TRUE

\* process_single_image's "except Exception as e".
JobRunnerCatches(e) == IsException(e)

\* Variant: the existence check is never taken.
SkipsExisting_Never(exists, verb) == FALSE

\* Variant: the existence check does not look at verbose.
SkipsExisting_IgnoreVerbose(exists, verb) == exists

\* The early return of process_single_image.
SkipsExisting(exists, verb) == exists /\ ~verb

\* Variant: the output file alone decides, whatever the return code.
Classify_ExistsOnly(returncode, outputExists) ==
  IF outputExists THEN "Success"
  ELSE IF returncode = 0 THEN "Warning" ELSE "Failed"

\* Variant: the return code alone decides, whatever the output file.
Classify_IgnoreOutput(returncode, outputExists) ==
  IF returncode = 0 THEN "Success" ELSE "Failed"

\* The classification of a finished child process.
Classify(returncode, outputExists) ==
  IF returncode = 0
  THEN IF outputExists THEN "Success" ELSE "Warning"
  ELSE "Failed"

IsSuccessLine(kind) == kind \in {"Skipping", "Success"}

IsFailureLine(kind) == kind \in {"Warning", "Failed", "Error"}

\* ---------------------------------------------------- Installation Locator
\* The attributes __init__ has assigned when it resolves facefusion_path.
AttrsSetBeforeLocator == {"source_image", "target_dir", "output_dir"}

Matching(inst) == {i \in 1..Len(Candidates) : inst[Candidates[i]]}

\* _find_facefusion: [exc, path]. The loop body reads self.verbose on the
\* first match.
_find_facefusion(inst) ==
  IF Matching(inst) = {}
  THEN [exc |-> "FileNotFoundError", msg |-> "InstallNotFound", path |-> "unset"]
  ELSE LET first == CHOOSE i \in Matching(inst) : \A j \in Matching(inst) : i <= j
       IN  IF "verbose" \in AttrsSetBeforeLocator
           THEN [exc |-> "None", msg |-> "", path |-> Candidates[first]]
           ELSE [exc |-> "AttributeError", msg |-> "NoAttributeVerbose", path |-> "unset"]

\* --------------------------------------------------------- Input Validator
\* Variant: the target directory is checked before the source image.
_validate_inputs_TargetFirst(src, tkind, entries, toolOk) ==
  IF tkind = "absent"
  THEN [exc |-> "FileNotFoundError", msg |-> "TargetDirNotFound", scanned |-> FALSE]
  ELSE IF ~src
  THEN [exc |-> "FileNotFoundError", msg |-> "SourceNotFound", scanned |-> FALSE]
  ELSE IF ~toolOk
  THEN [exc |-> "FileNotFoundError", msg |-> "ToolNotFound", scanned |-> FALSE]
  ELSE IF tkind # "dir"
  THEN [exc |-> "NotADirectoryError", msg |-> "NotADirectory", scanned |-> FALSE]
  ELSE IF SortedSeq({n \in DOMAIN entries : IsTargetImage(entries, n)}) = << >>
  THEN [exc |-> "ValueError", msg |-> "NoImages", scanned |-> TRUE]
  ELSE [exc |-> "None", msg |-> "", scanned |-> TRUE]

\* Variant: an empty target set is accepted.
_validate_inputs_AcceptEmpty(src, tkind, entries, toolOk) ==
  IF ~src
  THEN [exc |-> "FileNotFoundError", msg |-> "SourceNotFound", scanned |-> FALSE]
  ELSE IF tkind = "absent"
  THEN [exc |-> "FileNotFoundError", msg |-> "TargetDirNotFound", scanned |-> FALSE]
  ELSE IF ~toolOk
  THEN [exc |-> "FileNotFoundError", msg |-> "ToolNotFound", scanned |-> FALSE]
  ELSE IF tkind # "dir"
  THEN [exc |-> "NotADirectoryError", msg |-> "NotADirectory", scanned |-> FALSE]
  ELSE [exc |-> "None", msg |-> "", scanned |-> TRUE]

\* _validate_inputs: the exception raised and its message, "None" when valid;
\* "scanned" tells whether the scan of the target directory returned.
_validate_inputs(src, tkind, entries, toolOk) ==
  IF ~src
  THEN [exc |-> "FileNotFoundError", msg |-> "SourceNotFound", scanned |-> FALSE]
  ELSE IF tkind = "absent"
  THEN [exc |-> "FileNotFoundError", msg |-> "TargetDirNotFound", scanned |-> FALSE]
  ELSE IF ~toolOk
  THEN [exc |-> "FileNotFoundError", msg |-> "ToolNotFound", scanned |-> FALSE]
  ELSE IF tkind # "dir"
  THEN [exc |-> "NotADirectoryError", msg |-> "NotADirectory", scanned |-> FALSE]
  ELSE IF _get_target_images(entries) = << >>
  THEN [exc |-> "ValueError", msg |-> "NoImages", scanned |-> TRUE]
  ELSE [exc |-> "None", msg |-> "", scanned |-> TRUE]

\* Variant: the output directory is prepared before the inputs are validated.
Construction_PrepareFirst(expl, inst, src, tkind, entries) ==
  LET loc == IF expl THEN [exc |-> "None", msg |-> "", path |-> "explicit"]
             ELSE _find_facefusion(inst)
  IN  IF loc.exc # "None"
      THEN [exc |-> loc.exc, msg |-> loc.msg, path |-> loc.path,
            scanned |-> FALSE, prepared |-> FALSE]
      ELSE LET v == _validate_inputs(src, tkind, entries, inst[loc.path])
           IN  [exc |-> v.exc, msg |-> v.msg, path |-> loc.path,
                scanned |-> v.scanned, prepared |-> TRUE]

\* __init__: resolve facefusion_path, validate, then prepare the output
\* directory; "prepared" tells whether _prepare_output_dir was reached.
Construction(expl, inst, src, tkind, entries) ==
  LET loc == IF expl THEN [exc |-> "None", msg |-> "", path |-> "explicit"]
             ELSE _find_facefusion(inst)
  IN  IF loc.exc # "None"
      THEN [exc |-> loc.exc, msg |-> loc.msg, path |-> loc.path,
            scanned |-> FALSE, prepared |-> FALSE]
      ELSE LET v == _validate_inputs(src, tkind, entries, inst[loc.path])
           IN  [exc |-> v.exc, msg |-> v.msg, path |-> loc.path,
                scanned |-> v.scanned, prepared |-> (v.exc = "None")]

\* ------------------------------------------------------------------ main()
\* The except clauses of main(), in order.
MainExitStatus(e) ==
  IF e \in {"FileNotFoundError", "ValueError"} THEN 1
  ELSE IF e = "KeyboardInterrupt" THEN 130
  ELSE 1

\* Variant: the exit status ignores the failure count.
BatchExitStatus_AlwaysZero(f) == 0

\* sys.exit(0 if failed == 0 else 1)
BatchExitStatus(f) == IF f = 0 THEN 0 ELSE 1

\* -------------------------------------------------------------------- Init
Locations == {"explicit"} \cup {Candidates[i] : i \in 1..Len(Candidates)}

Directories ==
  UNION { [S -> {"file", "dir"}] :
          S \in {T \in SUBSET Pool : Cardinality(T) <= MaxEntries} }

\* The names the output directory may hold before the run: "s_to_" followed
\* by the name of a file of the target directory.
PreExisting(entries) ==
  { << "s", "_", "t", "o", "_" >> \o n : n \in {m \in DOMAIN entries : entries[m] = "file"} }

\* The choices of --provider and --model, and their defaults.
Providers == {"cpu", "cuda", "directml", "openvino", "rocm"}

Models ==
  {"inswapper_128", "inswapper_128_fp16", "simswap_256", "simswap_512_unofficial"}

\* The file system and the paths and the verbose flag of the command line.
InitFs ==
  /\ srcExists \in BOOLEAN
  /\ targetKind \in {"absent", "file", "dir"}
  /\ dirEntries \in Directories
  /\ targetKind # "dir" => dirEntries = << >>
  /\ explicitPath \in BOOLEAN
  /\ installed \in [Locations -> BOOLEAN]
  /\ ~explicitPath => ~installed["explicit"]
  \* With an explicit path __init__ never calls the locator, and no default
  \* location other than the first is given an installation.
  /\ explicitPath => \A i \in 2..Len(Candidates) : ~installed[Candidates[i]]
  /\ verbose \in BOOLEAN
  /\ outputFiles \in {F \in SUBSET PreExisting(dirEntries) : Cardinality(F) <= MaxPre}
  /\ outputDirExists \in BOOLEAN
  /\ outputFiles # {} => outputDirExists

\* The state of the process when main() starts.
InitProcess ==
  /\ facefusion_path = "unset"
  /\ pc = "start"
  /\ targets = << >>
  /\ enumCalls = 0
  /\ idx = 0
  /\ successful = 0
  /\ failed = 0
  /\ launched = << >>
  /\ exits = << >>
  /\ stdout = << >>
  /\ summaryPrinted = FALSE
  /\ error = ""
  /\ exitStatus = -1
  /\ sigint = FALSE

\* Runs with the default provider and model.
Init ==
  /\ InitFs
  /\ execution_provider = "cpu"
  /\ face_swapper_model = "inswapper_128"
  /\ InitProcess

\* Runs with every provider and model, an explicit installation path and a
\* target directory of at most MaxCmdEntries entries.
InitCmd ==
  /\ InitFs
  /\ explicitPath
  /\ ~installed[Candidates[1]]
  /\ targetKind = "dir"
  /\ Cardinality(DOMAIN dirEntries) <= MaxCmdEntries
  /\ execution_provider \in Providers
  /\ face_swapper_model \in Models
  /\ InitProcess

\* ----------------------------------------------------------------- actions
\* main(): FaceFusionBatch(...) raises, and an except clause of main() exits.
ConstructFails ==
  LET c == Construction(explicitPath, installed, srcExists, targetKind, dirEntries)
  IN  /\ pc = "start"
      /\ c.exc # "None"
      /\ facefusion_path' = c.path
      /\ error' = c.msg
      /\ exitStatus' = MainExitStatus(c.exc)
      /\ pc' = "exited"
      /\ targets' = IF c.scanned THEN _get_target_images(dirEntries) ELSE targets
      /\ enumCalls' = IF c.scanned THEN enumCalls + 1 ELSE enumCalls
      /\ outputDirExists' = (outputDirExists \/ c.prepared)
      /\ UNCHANGED << fsVars, outputFiles, idx, successful, failed, launched,
                      exits, stdout, summaryPrinted, sigint >>

\* main(): FaceFusionBatch(...) returns the processor.
ConstructOk ==
  LET c == Construction(explicitPath, installed, srcExists, targetKind, dirEntries)
  IN  /\ pc = "start"
      /\ c.exc = "None"
      /\ facefusion_path' = c.path
      /\ pc' = "constructed"
      /\ targets' = _get_target_images(dirEntries)
      /\ enumCalls' = enumCalls + 1
      /\ outputDirExists' = (outputDirExists \/ c.prepared)
      /\ UNCHANGED << fsVars, outputFiles, idx, successful, failed, launched,
                      exits, stdout, summaryPrinted, error, exitStatus, sigint >>

\* process_batch up to the loop: enumerate the targets, zero the counters.
BatchStart ==
  /\ pc = "constructed"
  /\ targets' = _get_target_images(dirEntries)
  /\ enumCalls' = enumCalls + 1
  /\ idx' = 0
  /\ successful' = 0
  /\ failed' = 0
  /\ pc' = "loop"
  /\ UNCHANGED << fsVars, outputDirExists, outputFiles, facefusion_path, launched, exits,
                  stdout, summaryPrinted, error, exitStatus, sigint >>

\* Variant: the loop walks the list from its end.
CurTarget_Reversed == targets[Len(targets) - idx]

\* The target of the current iteration of "for idx, target_image in ...".
CurTarget == targets[idx + 1]

CurOutput == OutputFilename(SourceName, CurTarget)

Line(kind, name) == [kind |-> kind, name |-> name]

\* Variant: a failed job is added to both counters.
Tally_CountsBoth(ok) ==
  /\ successful' = successful + 1
  /\ failed' = IF ok THEN failed ELSE failed + 1
  /\ idx' = idx + 1
  /\ pc' = "loop"

\* Variant: a failed job ends the loop.
Tally_StopOnFailure(ok) ==
  /\ successful' = IF ok THEN successful + 1 ELSE successful
  /\ failed' = IF ok THEN failed ELSE failed + 1
  /\ idx' = IF ok THEN idx + 1 ELSE Len(targets)
  /\ pc' = "loop"

\* The tally of process_batch for one returned job, and the move to the next.
Tally(ok) ==
  /\ successful' = IF ok THEN successful + 1 ELSE successful
  /\ failed' = IF ok THEN failed ELSE failed + 1
  /\ idx' = idx + 1
  /\ pc' = "loop"

\* One iteration whose job returns early because the output exists.
JobSkip ==
  /\ pc = "loop"
  /\ idx < Len(targets)
  /\ SkipsExisting(CurOutput \in outputFiles, verbose)
  /\ stdout' = stdout \o << Line("Processing", CurTarget), Line("Skipping", CurTarget) >>
  /\ Tally(TRUE)
  /\ UNCHANGED << fsVars, outputDirExists, outputFiles, facefusion_path, targets, enumCalls,
                  launched, exits, summaryPrinted, error, exitStatus, sigint >>

\* Variant: the child is spawned and not awaited (Popen without wait).
JobLaunch_NoWait ==
  /\ pc = "loop"
  /\ idx < Len(targets)
  /\ ~SkipsExisting(CurOutput \in outputFiles, verbose)
  /\ stdout' = stdout \o << Line("Processing", CurTarget), Line("Success", CurTarget) >>
  /\ launched' = Append(launched,
       [target |-> CurTarget, output |-> CurOutput, cwd |-> facefusion_path,
        cmd |-> _build_command(facefusion_path, execution_provider,
                               face_swapper_model, CurTarget, CurOutput)])
  /\ successful' = successful + 1
  /\ idx' = idx + 1
  /\ UNCHANGED << fsVars, outputDirExists, outputFiles, facefusion_path, targets, enumCalls,
                  pc, failed, exits, summaryPrinted, error, exitStatus, sigint >>

\* One iteration up to the point where subprocess.run has spawned the child.
JobLaunch ==
  /\ pc = "loop"
  /\ idx < Len(targets)
  /\ ~SkipsExisting(CurOutput \in outputFiles, verbose)
  /\ stdout' = Append(stdout, Line("Processing", CurTarget))
  /\ launched' = Append(launched,
       [target |-> CurTarget, output |-> CurOutput, cwd |-> facefusion_path,
        cmd |-> _build_command(facefusion_path, execution_provider,
                               face_swapper_model, CurTarget, CurOutput)])
  /\ pc' = "running"
  /\ UNCHANGED << fsVars, outputDirExists, outputFiles, facefusion_path, targets, enumCalls,
                  idx, successful, failed, exits, summaryPrinted, error,
                  exitStatus, sigint >>

\* One iteration in which subprocess.run raises instead of spawning a child.
JobLaunchFail ==
  /\ pc = "loop"
  /\ idx < Len(targets)
  /\ ~SkipsExisting(CurOutput \in outputFiles, verbose)
  /\ JobRunnerCatches("OSError")
  /\ stdout' = stdout \o << Line("Processing", CurTarget), Line("Error", CurTarget) >>
  /\ Tally(FALSE)
  /\ UNCHANGED << fsVars, outputDirExists, outputFiles, facefusion_path, targets, enumCalls,
                  launched, exits, summaryPrinted, error, exitStatus, sigint >>

\* The child exits with a return code, having written its output or not; the
\* job is classified and tallied.
ChildExit ==
  /\ pc = "running"
  /\ \E returncode \in {0, 1}, wrote \in BOOLEAN :
       LET files == IF wrote THEN outputFiles \cup {CurOutput} ELSE outputFiles
           kind == Classify(returncode, CurOutput \in files)
       IN  /\ outputFiles' = files
           /\ exits' = Append(exits, [returncode |-> returncode, wrote |-> wrote])
           /\ stdout' = Append(stdout, Line(kind, CurTarget))
           /\ Tally(kind = "Success")
  /\ UNCHANGED << fsVars, outputDirExists, facefusion_path, targets, enumCalls, launched,
                  summaryPrinted, error, exitStatus, sigint >>

\* KeyboardInterrupt is raised in the loop, between jobs or while the child
\* is awaited.
Interrupt ==
  /\ pc = "running" \/ (pc = "loop" /\ idx < Len(targets))
  /\ sigint' = TRUE
  /\ IF pc = "running" /\ JobRunnerCatches("KeyboardInterrupt")
     THEN /\ stdout' = Append(stdout, Line("Error", CurTarget))
          /\ Tally(FALSE)
          /\ UNCHANGED << error, exitStatus >>
     ELSE /\ error' = "Interrupted"
          /\ exitStatus' = MainExitStatus("KeyboardInterrupt")
          /\ pc' = "exited"
          /\ UNCHANGED << stdout, idx, successful, failed >>
  /\ UNCHANGED << fsVars, outputDirExists, outputFiles, facefusion_path, targets, enumCalls,
                  launched, exits, summaryPrinted >>

\* The loop is over: print the summary, return the counts, sys.exit.
Finish ==
  /\ pc = "loop"
  /\ idx = Len(targets)
  /\ summaryPrinted' = TRUE
  /\ exitStatus' = BatchExitStatus(failed)
  /\ pc' = "exited"
  /\ UNCHANGED << fsVars, outputDirExists, outputFiles, facefusion_path, targets, enumCalls,
                  idx, successful, failed, launched, exits, stdout, error,
                  sigint >>

Next ==
  \/ ConstructFails
  \/ ConstructOk
  \/ BatchStart
  \/ JobSkip
  \/ JobLaunch
  \/ JobLaunchFail
  \/ ChildExit
  \/ Interrupt
  \/ Finish

Spec == Init /\ [][Next]_vars

SpecCmd == InitCmd /\ [][Next]_vars

TypeOK ==
  /\ pc \in {"start", "constructed", "loop", "running", "exited"}
  /\ exitStatus \in {-1, 0, 1, 130}
  /\ idx \in 0..Len(targets)
  /\ successful \in 0..Len(targets)
  /\ failed \in 0..Len(targets)
  /\ enumCalls \in 0..2
  /\ Len(exits) <= Len(launched)
  /\ execution_provider \in Providers
  /\ face_swapper_model \in Models
  /\ (outputFiles # {} \/ pc \in {"constructed", "loop", "running"}) => outputDirExists

\* ---------------------------------------------------------- claim helpers
\* The directory entry's name ends, case-insensitively, with a dot and one of
\* the six supported extensions, after a non-empty stem.
ExtNames ==
  { << "j", "p", "g" >>, << "j", "p", "e", "g" >>, << "p", "n", "g" >>,
    << "b", "m", "p" >>, << "t", "i", "f", "f" >>, << "w", "e", "b", "p" >> }

HasImageExt(n) ==
  \E e \in ExtNames :
    /\ Len(n) > Len(e) + 1
    /\ n[Len(n) - Len(e)] = "."
    /\ Lower(SubSeq(n, Len(n) - Len(e) + 1, Len(n))) = e

SupportedFiles ==
  {n \in DOMAIN dirEntries : dirEntries[n] = "file" /\ HasImageExt(n)}

\* The tool entry point is missing under the installation path in use.
ToolMissing ==
  IF explicitPath THEN ~installed["explicit"] ELSE Matching(installed) = {}

\* The batch loop finished and process_batch returned.
BatchFinished == pc = "exited" /\ summaryPrinted

FailureLines == {i \in DOMAIN stdout : IsFailureLine(stdout[i].kind)}

\* The targets handed to the Job Runner so far, in order.
IsProcessingLine(l) == l.kind = "Processing"

Handed == [i \in DOMAIN SelectSeq(stdout, IsProcessingLine) |->
             SelectSeq(stdout, IsProcessingLine)[i].name]

\* ------------------------------------------------------------------ claims
\* C1: when the batch loop finishes without an interrupt or an uncaught
\* error, the exit status is 0 if and only if no job was classified Failed
\* (failed = 0), and it is 1 otherwise.
C1_ExitStatusReflectsFailures ==
  BatchFinished =>
    /\ exitStatus \in {0, 1}
    /\ (exitStatus = 0) <=> (FailureLines = {})
    /\ (exitStatus = 0) <=> (failed = 0)

C1_Witness ==
  BatchFinished /\ exitStatus = 1 /\ successful > 0 /\ failed > 0

\* C2: a job entered while its output file exists and verbose is off is
\* counted as a success, and no child process is spawned for it.
C2_SkipExistingLaunchesNothing ==
  [][ ( /\ pc = "loop"
        /\ idx < Len(targets)
        /\ Len(stdout') > Len(stdout)
        /\ CurOutput \in outputFiles
        /\ ~verbose )
      => ( /\ successful' = successful + 1
           /\ failed' = failed
           /\ launched' = launched
           /\ exits' = exits
           /\ stdout'[Len(stdout')] = Line("Skipping", CurTarget) ) ]_vars

C2_Witness ==
  /\ ~verbose
  /\ \E i \in DOMAIN stdout : stdout[i].kind = "Skipping"
  /\ \E i \in DOMAIN stdout : stdout[i].kind = "Success"
  /\ BatchFinished

\* C3: a job that ends Failed (exit 0 without the output file, nonzero exit,
\* or a process that cannot be launched) adds exactly one to the failure
\* tally and the loop goes on: a run that is not interrupted hands every
\* enumerated target to the Job Runner.
C3_FailureIsContained ==
  /\ [][ ( /\ Len(stdout') > Len(stdout)
           /\ IsFailureLine(stdout'[Len(stdout')].kind) )
         => ( /\ failed' = failed + 1
              /\ successful' = successful
              /\ idx' = idx + 1
              /\ pc' = "loop"
              /\ targets' = targets ) ]_vars
  /\ [](BatchFinished => Handed = targets /\ failed = Cardinality(FailureLines))

C3_Witness ==
  /\ BatchFinished
  /\ \E i, j, k \in DOMAIN stdout :
       /\ i < j /\ j < k
       /\ {stdout[i].kind, stdout[j].kind, stdout[k].kind} = {"Warning", "Failed", "Error"}
  /\ failed = 3

\* C4: when the source image is missing, the target directory is missing (or
\* is not a directory), the tool entry point is missing or the target
\* directory has no supported image, construction fails, the run exits with
\* status 1, and no child process is ever spawned.
C4_InvalidInputsRunNothing ==
  ( \/ ~srcExists
    \/ targetKind # "dir"
    \/ ToolMissing
    \/ SupportedFiles = {} )
  => /\ launched = << >>
     /\ stdout = << >>
     /\ pc \in {"start", "exited"}
     /\ pc = "exited" => exitStatus = 1

C4_Witness ==
  /\ pc = "exited"
  /\ srcExists /\ targetKind = "dir" /\ ~ToolMissing
  /\ DOMAIN dirEntries # {}
  /\ SupportedFiles = {}
  /\ error = "NoImages"
  /\ exitStatus = 1

\* The error of the earliest failing check in the order source image,
\* target directory, tool entry point, supported images; "" when none fails.
EarliestFailingCheck ==
  IF ~srcExists THEN "SourceNotFound"
  ELSE IF targetKind = "absent" THEN "TargetDirNotFound"
  ELSE IF ToolMissing THEN (IF explicitPath THEN "ToolNotFound" ELSE "InstallNotFound")
  ELSE IF targetKind = "file" THEN "NotADirectory"
  ELSE IF SupportedFiles = {} THEN "NoImages"
  ELSE ""

\* C5 (as stated): with or without an explicit installation path, the one
\* error reported by a failing construction is that of the earliest failing
\* check in the order source, target directory, tool entry point, images.
\* Runs that stop inside the locator on the unset attribute (see C6) are left
\* aside, so that a violation is owed to the order of the checks alone.
C5_EarliestCheckWinsAlways ==
  (pc # "start" /\ EarliestFailingCheck # "" /\ error # "NoAttributeVerbose")
  => (pc = "exited" /\ error = EarliestFailingCheck)

\* C5 (amended): with an explicit installation path the error reported is
\* that of the earliest failing check; without one the locator runs before
\* every check, and when no default candidate matches its not-found error is
\* the one reported, whatever the state of the source and the target.
C5_EarliestCheckWinsExplicit ==
  pc # "start" =>
    /\ (explicitPath /\ EarliestFailingCheck # "")
         => (pc = "exited" /\ error = EarliestFailingCheck)
    /\ (~explicitPath /\ Matching(installed) = {})
         => (pc = "exited" /\ error = "InstallNotFound")

C5_Witness ==
  /\ pc = "exited"
  /\ explicitPath
  /\ ~srcExists /\ targetKind = "absent" /\ ToolMissing
  /\ error = "SourceNotFound"

\* C6: without an explicit installation path, when some default candidate
\* holds the entry point the locator selects the first such candidate in
\* probe order and construction goes on to input validation with it; the
\* locator's not-found error is raised only when no candidate matches.
C6_LocatorSelectsFirstMatch ==
  (pc # "start" /\ ~explicitPath) =>
    /\ Matching(installed) # {} =>
         /\ \E i \in Matching(installed) :
              /\ \A j \in Matching(installed) : i <= j
              /\ facefusion_path = Candidates[i]
         /\ error = EarliestFailingCheck
    /\ error = "InstallNotFound" => Matching(installed) = {}

\* Every child process exited 0 and wrote its output, and every launch worked.
AllChildrenGood ==
  /\ \A i \in DOMAIN exits : exits[i].returncode = 0 /\ exits[i].wrote
  /\ \A i \in DOMAIN stdout : stdout[i].kind # "Error"

C8_EnumeratorExact ==
  enumCalls > 0 =>
    /\ {targets[i] : i \in DOMAIN targets} = SupportedFiles
    /\ Len(targets) = Cardinality(SupportedFiles)
    /\ \A i, j \in DOMAIN targets : i < j => StrLess(targets[i], targets[j])

C8_Witness ==
  /\ enumCalls > 0
  /\ Len(targets) = 2
  /\ Lower(targets[1]) # targets[1]
  /\ \E n \in DOMAIN dirEntries : dirEntries[n] = "dir" /\ HasImageExt(n)

\* C9: a user interrupt delivered while the loop runs, also while a child is
\* awaited, ends the run at once with exit status 130: it is not tallied as
\* a job failure, no further child is spawned and no summary is printed.
C9_InterruptAborts ==
  /\ [](sigint => pc = "exited" /\ exitStatus = 130 /\ ~summaryPrinted)
  /\ [][ sigint' => ( /\ launched' = launched
                      /\ failed' = failed
                      /\ successful' = successful
                      /\ stdout' = stdout ) ]_vars

C9_Witness ==
  /\ sigint
  /\ Len(launched) = Len(exits) + 1
  /\ idx + 1 < Len(targets)
  /\ failed = 0

\* C10: the output file name is sourceStem + "_to_" + targetStem +
\* targetExtension; two distinct enumerated targets have distinct output
\* names, and a job skipped because its output exists was never skipped on
\* the output of a child spawned in the same run.
OutputOf(t) == OutputFilename(SourceName, t)

C10_OutputNamesDistinct ==
  /\ \A i \in DOMAIN targets :
       OutputOf(targets[i]) = << "s", "_", "t", "o", "_" >> \o targets[i]
  /\ \A i, j \in DOMAIN targets :
       i # j => OutputOf(targets[i]) # OutputOf(targets[j])
  /\ \A k \in DOMAIN stdout :
       stdout[k].kind = "Skipping"
         => \A i \in DOMAIN launched : launched[i].output # OutputOf(stdout[k].name)

C10_Witness ==
  \E m, k \in DOMAIN stdout :
    /\ m < k
    /\ stdout[m].kind = "Success"
    /\ stdout[k].kind = "Skipping"
    /\ Stem(stdout[m].name) = Stem(stdout[k].name)

\* The name "s_to_<target name>" of the output expected for a target.
ExpectedOutput(t) == << "s", "_", "t", "o", "_" >> \o t

SuccessLines == {i \in DOMAIN stdout : IsSuccessLine(stdout[i].kind)}

ErrorLines == {i \in DOMAIN stdout : stdout[i].kind = "Error"}

\* C11: a job whose child was spawned is classified Success exactly when the
\* child exited 0 and the expected output file exists once it has exited;
\* exit 0 without the file, a nonzero exit and a failure to launch are each
\* classified Failed, and none of them raises out of the Job Runner.
C11_ClassificationOfRuns ==
  /\ [][ Len(exits') = Len(exits) + 1
         => /\ pc' = "loop" /\ exitStatus' = exitStatus
            /\ Len(stdout') = Len(stdout) + 1
            /\ IsSuccessLine(stdout'[Len(stdout')].kind)
                 <=> ( /\ exits'[Len(exits')].returncode = 0
                       /\ ExpectedOutput(launched[Len(launched)].target) \in outputFiles' )
            /\ IsSuccessLine(stdout'[Len(stdout')].kind)
                 => (successful' = successful + 1 /\ failed' = failed)
            /\ ~IsSuccessLine(stdout'[Len(stdout')].kind)
                 => /\ IsFailureLine(stdout'[Len(stdout')].kind)
                    /\ successful' = successful /\ failed' = failed + 1 ]_vars
  /\ [][ (Len(stdout') > Len(stdout) /\ stdout'[Len(stdout')].kind = "Error")
         => (pc' = "loop" /\ exitStatus' = exitStatus /\ failed' = failed + 1
             /\ successful' = successful) ]_vars

C11_Witness ==
  /\ BatchFinished
  /\ \E i, j, k \in DOMAIN stdout :
       /\ stdout[i].kind = "Success"
       /\ stdout[j].kind = "Warning"
       /\ stdout[k].kind = "Failed"
  /\ \E i \in DOMAIN exits : exits[i].returncode = 1 /\ exits[i].wrote

\* C12: the Batch Controller hands every target of the batch-start
\* enumeration to the Job Runner exactly once, in ascending order of name,
\* whatever the earlier jobs did, and a skipped job is tallied as a success.
C12_EveryTargetOnceInOrder ==
  /\ Len(Handed) <= Len(targets)
  /\ \A i \in DOMAIN Handed : Handed[i] = targets[i]
  /\ \A i, j \in DOMAIN Handed : i < j => StrLess(Handed[i], Handed[j])
  /\ BatchFinished
       => /\ Handed = targets
          /\ successful = Cardinality(SuccessLines)

C12_Witness ==
  /\ BatchFinished
  /\ Len(targets) = 3
  /\ \E i, j \in DOMAIN stdout :
       i < j /\ IsFailureLine(stdout[i].kind) /\ stdout[j].kind = "Skipping"
  /\ successful = 2

\* C13: in verbose mode the existence check is not made: every target handed
\* to the Job Runner leads to a call of the tool, also when its output file
\* exists already, and no job is reported as skipped.
C13_VerboseNeverSkips ==
  verbose =>
    /\ \A i \in DOMAIN stdout : stdout[i].kind # "Skipping"
    /\ Len(Handed) = Len(launched) + Cardinality(ErrorLines)
    /\ \A i \in DOMAIN Handed :
         \/ \E j \in DOMAIN launched : launched[j].target = Handed[i]
         \/ \E k \in ErrorLines : stdout[k].name = Handed[i]

C13_Witness ==
  /\ verbose
  /\ BatchFinished
  /\ \E i \in DOMAIN exits :
       /\ ~exits[i].wrote
       /\ exits[i].returncode = 0
       /\ launched[i].output \in outputFiles

\* C14: at most one child process exists at any time; a job is entered, and
\* a child spawned, only when every child spawned before has exited.
C14_OneChildAtATime ==
  /\ [](Len(launched) \in {Len(exits), Len(exits) + 1})
  /\ []((Len(launched) = Len(exits) + 1 /\ ~sigint) <=> pc = "running")
  /\ [][ (Len(Handed') > Len(Handed) \/ Len(launched') > Len(launched))
         => Len(launched) = Len(exits) ]_vars

C14_Witness ==
  /\ pc = "running"
  /\ Len(launched) = 2
  /\ Len(exits) = 1
  /\ exits[1].wrote

\* C16: at every iteration boundary successful + failed is the number of
\* targets handed to the Job Runner so far, each job adds exactly one to
\* exactly one of the two counters, and on normal return the sum is the
\* number of enumerated targets.
C16_CountersAddUp ==
  /\ [](pc = "loop" => (successful + failed = Len(Handed) /\ Len(Handed) = idx))
  /\ [](BatchFinished => successful + failed = Len(targets))
  /\ [][ idx' = idx + 1
         => \/ (successful' = successful + 1 /\ failed' = failed)
            \/ (successful' = successful /\ failed' = failed + 1) ]_vars
  /\ [][ idx' = idx => (successful' = successful /\ failed' = failed) ]_vars

C16_Witness ==
  /\ BatchFinished
  /\ successful = 2
  /\ failed = 1

\* C17: a job is tallied as successful, skipped or run, only while its
\* expected output file is in the output directory.
C17_SuccessHasOutput ==
  [][ successful' = successful + 1
      => /\ idx < Len(targets)
         /\ ExpectedOutput(targets[idx + 1]) \in outputFiles' ]_vars

C17_Witness ==
  /\ successful = 2
  /\ \E i, j \in DOMAIN stdout :
       stdout[i].kind = "Skipping" /\ stdout[j].kind = "Success"
  /\ \E i \in DOMAIN exits : exits[i].returncode = 0 /\ ~exits[i].wrote

\* The option opt is in the command, followed by the argument arg.
HasPair(c, opt, arg) ==
  \E k \in 1..(Len(c) - 1) : c[k] = Lit(opt) /\ c[k + 1] = arg

\* C15: the Command Builder appends the device-index argument (index 0)
\* exactly when the provider is cuda; for the other four providers the list
\* ends with --skip-download and holds no device index; every command holds
\* --source, --target, --output, the processor face_swapper, the chosen model
\* and the chosen provider.
C15_DeviceIndexOnlyForCuda ==
  \A i \in DOMAIN launched :
    LET c == launched[i].cmd
    IN  /\ HasPair(c, "--source", File("source", SourceName))
        /\ HasPair(c, "--target", File("target_dir", launched[i].target))
        /\ HasPair(c, "--output", File("output_dir", ExpectedOutput(launched[i].target)))
        /\ HasPair(c, "--processors", Lit("face_swapper"))
        /\ HasPair(c, "--face-swapper-model", Lit(face_swapper_model))
        /\ HasPair(c, "--execution-providers", Lit(execution_provider))
        /\ \E k \in DOMAIN c : c[k] = Lit("--skip-download")
        /\ execution_provider = "cuda"
             => /\ c[Len(c) - 1] = Lit("--execution-device-id")
                /\ c[Len(c)] = Lit("0")
                /\ c[Len(c) - 2] = Lit("--skip-download")
        /\ execution_provider # "cuda"
             => /\ c[Len(c)] = Lit("--skip-download")
                /\ \A k \in DOMAIN c : c[k] # Lit("--execution-device-id")

C15_Witness ==
  /\ execution_provider = "cuda"
  /\ face_swapper_model = "simswap_256"
  /\ Len(launched) = 1
  /\ Len(exits) = 1

\* C18: the output directory is created only once every validation check
\* has passed; a construction that fails on any check leaves the file system
\* as it was, and an absent output directory stays absent.
C18_FailedConstructionTouchesNothing ==
  /\ [][ (pc = "start" /\ pc' = "exited")
         => /\ outputDirExists' = outputDirExists
            /\ outputFiles' = outputFiles
            /\ srcExists' = srcExists /\ targetKind' = targetKind
            /\ dirEntries' = dirEntries /\ installed' = installed ]_vars
  /\ [][ outputDirExists' # outputDirExists
         => /\ EarliestFailingCheck = ""
            /\ pc = "start" /\ pc' = "constructed"
            /\ outputDirExists' ]_vars

C18_Witness ==
  /\ pc = "exited"
  /\ explicitPath
  /\ error = "NoImages"
  /\ ~outputDirExists

====
